---- MODULE Spec2Model ----
(***************************************************************************)
(* Model of dbfpy/dbf.py: the Dbf table container.                         *)
(*                                                                         *)
(* The stream is a flat sequence of cells: the header block (one cell),    *)
(* one cell per field descriptor, then fixed-length rows (a delete-flag    *)
(* cell followed by one cell per field) and the 0x1A terminator cell.      *)
(* Header, Record and MemoFile live in sibling modules of the package      *)
(* (header.py, record.py, memo.py) and are modelled at their interface.    *)
(***************************************************************************)
EXTENDS Integers, Sequences, FiniteSets, TLC

\* ---------------------------------------------------------------- bounds
MaxRecs == 2        \* largest record_count explored
MaxFields == 1      \* largest number of field definitions

Values == {"John", "Andy"}      \* field values a record is given
FieldTypes == {"C", "M"}
IgnoreInputs == {0, 2}          \* values handed to bool()
MemoArgs == {"None", "", "x.fpt"} \* memo_file argument: None, empty, a path
DbfPath == "t.dbf"
StreamNames == {""}             \* getattr(f, "name", ""): a stream without a name

INVALID_VALUE == "INVALID_VALUE"

\* ---------------------------------------------------------------- state
VARIABLES
    tbl,            \* "none": no Dbf object yet; "open"; "closed": stream closed
    name,           \* self.name
    stream,         \* contents of self.stream (the table file)
    writable,       \* self.stream.writable()
    fromPath,       \* TRUE when __init__ opened the stream itself from a path
    createdNew,     \* the `new` argument of __init__
    header,         \* self.header: [record_count, fields, ignore_errors, memo]
    memo,           \* self.memo
    ignore_errors,  \* self._ignore_errors
    appends,        \* appends that returned since __init__
    stored,         \* row -> values of the record last written there
    lastOp,         \* the entry point whose call is returning, or "idle"
    err,            \* what it raised ("none" when it returned)
    arg,            \* the index argument it was given
    memoArg,        \* the memo_file argument it was given (__init__)
    fixed,          \* what _fix_index computed for it
    recIndex,       \* record.index of the record argument after the call
    got,            \* the record an indexed read returned
    calls,          \* the stream and memo calls a flush or close made, in order
    sliceArg,       \* the slice a sliced read was given
    gotSlice,       \* the list a sliced read returned
    tornWrite       \* "lost": a failed write left the last row without its
                    \* terminator; "restored": the append returning now is the
                    \* first to succeed since; else "kept"

vars == <<tbl, name, stream, writable, fromPath, createdNew, header, memo,
          ignore_errors, appends, stored, lastOp, err, arg, memoArg, fixed,
          recIndex, got, calls, sliceArg, gotSlice, tornWrite>>

tableVars == <<tbl, name, stream, writable, fromPath, createdNew, header,
               memo, ignore_errors, appends, stored>>

\* ---------------------------------------------------------------- cells
Cell(k, a) == [k |-> k, a |-> a]
Zero == Cell("zero", 0)         \* gap byte left by a seek past the end
Eof == Cell("eof", 26)          \* b"\x1A"
DelFlag == Cell("flag", 32)     \* the row's delete-flag byte

Max(a, b) == IF a > b THEN a ELSE b

\* stream.seek(pos); stream.write(bytes)
Write(s, pos, bytes) ==
    LET n == Max(Len(s), pos + Len(bytes))
    IN  [i \in 1..n |->
            IF i > pos /\ i <= pos + Len(bytes) THEN bytes[i - pos]
            ELSE IF i <= Len(s) THEN s[i]
            ELSE Zero]

\* stream.seek(pos); stream.read(n), short at the end of the stream
Read(s, pos, n) ==
    [i \in 1..n |-> IF pos + i <= Len(s) THEN s[pos + i] ELSE Zero]

\* ---------------------------------------------------------------- Header
\* self.memo is None
NoMemo == [bound |-> FALSE, path |-> "", closed |-> FALSE]

\* memo.MemoFile(path, readOnly, new): the store, known by where it lives,
\* open until something closes it
MemoFile(path, readOnly, new) ==
    [bound |-> TRUE, path |-> path, closed |-> FALSE]

memoFileName(n) == IF n = DbfPath THEN "t.fpt" ELSE ".fpt"

EmptyHeader ==
    [record_count |-> 0, fields |-> <<>>, ignore_errors |-> FALSE,
     memo |-> NoMemo]

has_memo(h) == \E i \in 1..Len(h.fields) : h.fields[i] = "M"

headerLength(h) == 1 + Len(h.fields)
recordLength(h) == 1 + Len(h.fields)

\* Header serialisation: the block cell carries record_count and the number
\* of descriptors, one descriptor cell per field follows.
HeaderBytes(h) ==
    <<Cell("hdr", h.record_count * (MaxFields + 1) + Len(h.fields))>> \o
    [i \in 1..Len(h.fields) |-> Cell(h.fields[i], i)]

ValidHeaderAt(s) ==
    /\ Len(s) >= 1
    /\ s[1].k = "hdr"
    /\ Len(s) >= 1 + (s[1].a % (MaxFields + 1))
    /\ \A i \in 1..(s[1].a % (MaxFields + 1)) : s[1 + i].k \in FieldTypes

from_stream_header(s) ==
    LET nf == s[1].a % (MaxFields + 1)
    IN  [record_count |-> s[1].a \div (MaxFields + 1),
         fields |-> [i \in 1..nf |-> s[1 + i].k],
         ignore_errors |-> FALSE,
         memo |-> NoMemo]

\* ---------------------------------------------------------------- Record
NoIndex == <<>>                 \* record.index is None
NoRec == [index |-> NoIndex, vals |-> <<>>]
NoArg == [isInt |-> FALSE, v |-> 0]
\* a slice(start, stop, step); None is <<>>, the int i is <<i>>
NoSlice == [start |-> <<>>, stop |-> <<>>, step |-> <<>>]

position(h, index) == headerLength(h) + index * recordLength(h)

\* a field value as bytes, and back
FieldCode == [v \in Values |-> IF v = "John" THEN 74 ELSE 65]
EncodeField(v) == Cell("val", FieldCode[v])
to_bytes(record) ==
    <<DelFlag>> \o [i \in 1..Len(record.vals) |-> EncodeField(record.vals[i])]

\* record.validate_index(False): the index must be assigned and valid
validate_index(record, h) ==
    IF record.index = NoIndex THEN "ValueError"
    ELSE IF record.index[1] < 0 \/ record.index[1] > h.record_count
         THEN "ValueError"
    ELSE "none"

DecodeOk(c) == c.k = "val" /\ \E v \in Values : FieldCode[v] = c.a
DecodeField(c) ==
    IF DecodeOk(c) THEN CHOOSE v \in Values : FieldCode[v] = c.a
    ELSE INVALID_VALUE

\* RecordClass.from_stream(dbf, index)
from_stream(s, h, index) ==
    LET pos == position(h, index)
        cells == Read(s, pos, recordLength(h))
        nf == Len(h.fields)
    IN  IF pos < 0 THEN [err |-> "ValueError", rec |-> NoRec]
        ELSE IF ~h.ignore_errors /\ \E i \in 1..nf : ~DecodeOk(cells[1 + i])
             THEN [err |-> "ConversionError", rec |-> NoRec]
        ELSE [err |-> "none",
              rec |-> [index |-> <<index>>,
                       vals |-> [i \in 1..nf |-> DecodeField(cells[1 + i])]]]

\* ---------------------------------------------------------------- Dbf
__len__(h) == h.record_count

\* Dbf._fix_index; index.isInt is isinstance(index, int)
_fix_index(index, h) ==
    LET i1 == IF index.v < 0 THEN index.v + __len__(h) + 1 ELSE index.v
    IN  IF ~index.isInt THEN [err |-> "TypeError", val |-> index.v]
        ELSE IF i1 >= __len__(h) THEN [err |-> "IndexError", val |-> i1]
        ELSE [err |-> "none", val |-> i1]

Min(a, b) == IF a < b THEN a ELSE b

\* variant: the slice limits are taken as they come, without clamping
slice_indices_unclamped(n, sl) ==
    LET step == IF sl.step = <<>> THEN 1 ELSE sl.step[1]
        lower == IF step < 0 THEN 0 - 1 ELSE 0
        upper == IF step < 0 THEN n - 1 ELSE n
        adjust(x) == IF x < 0 THEN x + n ELSE x
        start == IF sl.start = <<>>
                 THEN (IF step < 0 THEN upper ELSE lower)
                 ELSE adjust(sl.start[1])
        stop == IF sl.stop = <<>>
                THEN (IF step < 0 THEN lower ELSE upper)
                ELSE adjust(sl.stop[1])
        len == IF step > 0
               THEN (IF start < stop THEN (stop - start - 1) \div step + 1
                     ELSE 0)
               ELSE IF step < 0
               THEN (IF stop < start
                     THEN (start - stop - 1) \div (0 - step) + 1 ELSE 0)
               ELSE 0
    IN  IF step = 0 THEN [err |-> "ValueError", idx |-> <<>>]
        ELSE [err |-> "none", idx |-> [k \in 1..len |-> start + (k - 1) * step]]

\* range(self.record_count)[index] for a slice: the row numbers it yields.
\* A limit below zero counts from the end; limits are then clamped to the
\* range, an omitted limit is the end the step walks from or to.
slice_indices(n, sl) ==
    LET step == IF sl.step = <<>> THEN 1 ELSE sl.step[1]
        lower == IF step < 0 THEN 0 - 1 ELSE 0
        upper == IF step < 0 THEN n - 1 ELSE n
        adjust(x) == IF x < 0 THEN Max(x + n, lower) ELSE Min(x, upper)
        start == IF sl.start = <<>>
                 THEN (IF step < 0 THEN upper ELSE lower)
                 ELSE adjust(sl.start[1])
        stop == IF sl.stop = <<>>
                THEN (IF step < 0 THEN lower ELSE upper)
                ELSE adjust(sl.stop[1])
        len == IF step > 0
               THEN (IF start < stop THEN (stop - start - 1) \div step + 1
                     ELSE 0)
               ELSE IF step < 0
               THEN (IF stop < start
                     THEN (start - stop - 1) \div (0 - step) + 1 ELSE 0)
               ELSE 0
    IN  IF step = 0 THEN [err |-> "ValueError", idx |-> <<>>]
        ELSE [err |-> "none", idx |-> [k \in 1..len |-> start + (k - 1) * step]]

\* variant: the setter forgets the header
ignore_errors_setter_self_only(value) ==
    [header |-> FALSE, self |-> (value # 0)]

\* Dbf.ignore_errors setter: what it stores on the header and on self
ignore_errors_setter(value) ==
    [header |-> (value # 0), self |-> (value # 0)]

\* variant: the terminator is written after every row written
write_record_always_eof(s, h, w, record) ==
    IF ~w THEN [err |-> "none", stream |-> s]
    ELSE IF validate_index(record, h) # "none"
         THEN [err |-> validate_index(record, h), stream |-> s]
    ELSE LET pos == position(h, record.index[1])
             s1 == Write(s, pos, to_bytes(record))
         IN  [err |-> "none",
              stream |-> Write(s1, pos + Len(to_bytes(record)), <<Eof>>)]

\* variant: no seek, the row goes to the end of the stream
write_record_no_seek(s, h, w, record) ==
    IF ~w THEN [err |-> "none", stream |-> s]
    ELSE IF validate_index(record, h) # "none"
         THEN [err |-> validate_index(record, h), stream |-> s]
    ELSE LET pos == Len(s)
             s1 == Write(s, pos, to_bytes(record))
         IN  [err |-> "none",
              stream |-> IF record.index[1] = __len__(h)
                         THEN Write(s1, pos + Len(to_bytes(record)), <<Eof>>)
                         ELSE s1]

\* variant: the terminator test is turned round (index below the count)
write_record_eof_below(s, h, w, record) ==
    IF ~w THEN [err |-> "none", stream |-> s]
    ELSE IF validate_index(record, h) # "none"
         THEN [err |-> validate_index(record, h), stream |-> s]
    ELSE LET pos == position(h, record.index[1])
             s1 == Write(s, pos, to_bytes(record))
         IN  [err |-> "none",
              stream |-> IF record.index[1] < __len__(h)
                         THEN Write(s1, pos + Len(to_bytes(record)), <<Eof>>)
                         ELSE s1]

\* variant: no writable() test
write_record_no_guard(s, h, w, record) ==
    IF validate_index(record, h) # "none"
    THEN [err |-> validate_index(record, h), stream |-> s]
    ELSE LET pos == position(h, record.index[1])
             s1 == Write(s, pos, to_bytes(record))
         IN  [err |-> "none",
              stream |-> IF record.index[1] = __len__(h)
                         THEN Write(s1, pos + Len(to_bytes(record)), <<Eof>>)
                         ELSE s1]

\* variant: the index is validated after the row bytes went out
write_record_validate_late(s, h, w, record) ==
    IF ~w THEN [err |-> "none", stream |-> s]
    ELSE IF record.index = NoIndex
         THEN [err |-> "ValueError",
               stream |-> Write(s, Len(s), to_bytes(record))]
    ELSE IF validate_index(record, h) # "none"
         THEN [err |-> validate_index(record, h), stream |-> s]
    ELSE LET pos == position(h, record.index[1])
             s1 == Write(s, pos, to_bytes(record))
         IN  [err |-> "none",
              stream |-> IF record.index[1] = __len__(h)
                         THEN Write(s1, pos + Len(to_bytes(record)), <<Eof>>)
                         ELSE s1]

\* variant: the terminator is never written
write_record_no_eof(s, h, w, record) ==
    IF ~w THEN [err |-> "none", stream |-> s]
    ELSE IF validate_index(record, h) # "none"
         THEN [err |-> validate_index(record, h), stream |-> s]
    ELSE [err |-> "none",
          stream |-> Write(s, position(h, record.index[1]), to_bytes(record))]

\* Dbf.write_record
write_record(s, h, w, record) ==
    IF ~w THEN [err |-> "none", stream |-> s]
    ELSE IF validate_index(record, h) # "none"
         THEN [err |-> validate_index(record, h), stream |-> s]
    ELSE LET pos == position(h, record.index[1])
             s1 == Write(s, pos, to_bytes(record))
         IN  [err |-> "none",
              stream |-> IF record.index[1] = __len__(h)
                         THEN Write(s1, pos + Len(to_bytes(record)), <<Eof>>)
                         ELSE s1]

\* the stream call of write_record that raises
FaultPoints == {"seek", "write", "terminator"}

\* Dbf.write_record on a stream whose seek or write may raise: a failing
\* seek or row write leaves the stream as it was, a failing terminator
\* write leaves the row written; the exception leaves write_record at once.
\* fault = "none": every stream call returns.
write_record_fault(s, h, w, record, fault) ==
    IF ~w \/ validate_index(record, h) # "none"
    THEN write_record(s, h, w, record)
    ELSE IF fault \in {"seek", "write"} THEN [err |-> "IOError", stream |-> s]
    ELSE IF fault = "terminator" /\ record.index[1] = __len__(h)
         THEN [err |-> "IOError",
               stream |-> Write(s, position(h, record.index[1]),
                                to_bytes(record))]
    ELSE write_record(s, h, w, record)

\* Dbf.flush; hdrSkips: header.flush finds nothing to serialise, the only way
\* it can return on a stream that is not writable.  m is self.memo, flushed
\* when it is one (hasattr(self.memo, 'flush')).
flush(s, h, w, m, hdrSkips) ==
    LET tail == <<"stream.flush">> \o
                (IF m.bound THEN <<"memo.flush">> ELSE <<>>)
    IN  IF w THEN [err |-> "none", stream |-> Write(s, 0, HeaderBytes(h)),
                   calls |-> <<"header.flush">> \o tail]
        ELSE IF hdrSkips THEN [err |-> "none", stream |-> s,
                               calls |-> <<"header.flush">> \o tail]
        ELSE [err |-> "IOError", stream |-> s, calls |-> <<"header.flush">>]

\* variant: the guard lets the first record pass
add_field_off_by_one(h, m, nm, defs) ==
    IF h.record_count > 1 THEN [err |-> "TypeError", header |-> h, memo |-> m]
    ELSE LET h1 == [h EXCEPT !.fields = h.fields \o defs]
             m1 == IF has_memo(h1) /\ ~m.bound
                   THEN MemoFile(memoFileName(nm), FALSE, TRUE)
                   ELSE m
         IN  [err |-> "none",
              header |-> IF has_memo(h1) THEN [h1 EXCEPT !.memo = m1] ELSE h1,
              memo |-> m1]

\* variant: a schema with memo fields always gets a fresh store
add_field_rebinds(h, m, nm, defs) ==
    IF h.record_count > 0 THEN [err |-> "TypeError", header |-> h, memo |-> m]
    ELSE LET h1 == [h EXCEPT !.fields = h.fields \o defs]
             m1 == IF has_memo(h1)
                   THEN MemoFile(memoFileName(nm), FALSE, TRUE)
                   ELSE m
         IN  [err |-> "none",
              header |-> IF has_memo(h1) THEN [h1 EXCEPT !.memo = m1] ELSE h1,
              memo |-> m1]

\* Dbf.add_field: the guard, then the header and memo it leaves
add_field(h, m, nm, defs) ==
    IF h.record_count > 0 THEN [err |-> "TypeError", header |-> h, memo |-> m]
    ELSE LET h1 == [h EXCEPT !.fields = h.fields \o defs]
             m1 == IF has_memo(h1) /\ ~m.bound
                   THEN MemoFile(memoFileName(nm), FALSE, TRUE)
                   ELSE m
         IN  [err |-> "none",
              header |-> IF has_memo(h1) THEN [h1 EXCEPT !.memo = m1] ELSE h1,
              memo |-> m1]

\* variant: the header's memo flag is looked at first
init_memo_header_first(memo_file, h, nm, read_only, new) ==
    IF has_memo(h) THEN MemoFile(memoFileName(nm), read_only, new)
    ELSE IF memo_file \notin {"None", ""}
         THEN MemoFile(memo_file, read_only, new)
    ELSE NoMemo

\* the memo binding __init__ resolves
init_memo(memo_file, h, nm, read_only, new) ==
    IF memo_file \notin {"None", ""} THEN MemoFile(memo_file, read_only, new)
    ELSE IF has_memo(h) THEN MemoFile(memoFileName(nm), read_only, new)
    ELSE NoMemo

\* bookkeeping: the values written at the record's row, when wrote
Store(st, record, wrote) ==
    IF wrote
    THEN [j \in DOMAIN st \cup {record.index[1]} |->
             IF j = record.index[1] THEN record.vals ELSE st[j]]
    ELSE st

\* ---------------------------------------------------------------- Init
Init ==
    /\ tbl = "none"
    /\ name = ""
    /\ stream = <<>>
    /\ writable = FALSE
    /\ fromPath = FALSE
    /\ createdNew = FALSE
    /\ header = EmptyHeader
    /\ memo = NoMemo
    /\ ignore_errors = FALSE
    /\ memoArg = "None"
    /\ appends = 0
    /\ stored = <<>>
    /\ lastOp = "idle"
    /\ err = "none"
    /\ arg = NoArg
    /\ fixed = 0
    /\ recIndex = NoIndex
    /\ got = NoRec
    /\ calls = <<>>
    /\ sliceArg = NoSlice
    /\ gotSlice = <<>>
    /\ tornWrite = "kept"

\* ---------------------------------------------------------------- actions
\* What __init__ does once self.name and self.stream are set
init(nm, w, isPath, read_only, new, ign, memo_file) ==
    /\ lastOp = "idle"
    /\ tbl \in {"none", "closed"}
    /\ ~new => ValidHeaderAt(stream)
    /\ LET s0 == IF new THEN <<>> ELSE stream
           h0 == IF new THEN EmptyHeader ELSE from_stream_header(s0)
           m == init_memo(memo_file, h0, nm, read_only, new)
       IN  /\ stream' = s0
           /\ header' = [h0 EXCEPT !.ignore_errors = ignore_errors_setter(ign).header,
                                   !.memo = m]
           /\ ignore_errors' = ignore_errors_setter(ign).self
           /\ memo' = m
    /\ tbl' = "open"
    /\ name' = nm
    /\ writable' = w
    /\ fromPath' = isPath
    /\ createdNew' = new
    /\ appends' = 0
    /\ stored' = IF new THEN <<>> ELSE stored
    /\ tornWrite' = IF new THEN "kept" ELSE tornWrite
    /\ lastOp' = "open"
    /\ UNCHANGED <<sliceArg, gotSlice>>
    /\ err' = "none"
    /\ arg' = NoArg /\ memoArg' = memo_file /\ fixed' = 0
    /\ recIndex' = NoIndex /\ got' = NoRec /\ calls' = <<>>

\* Dbf(f, read_only, new, ignore_errors, memo_file) with f a filename:
\* mode "w+b" when new, else "r+b" or "rb"
OpenPath(read_only, new, ign, memo_file) ==
    init(DbfPath, new \/ ~read_only, TRUE, read_only, new, ign, memo_file)

\* Dbf(f, ...) with f a stream the caller opened (an empty writable one when
\* the table is to be created in it); nm is its name attribute, w whether it
\* is writable (read_only only reaches the MemoFile constructor)
OpenStream(nm, w, new, ign, memo_file) ==
    /\ new => w
    /\ init(nm, w, FALSE, FALSE, new, ign, memo_file)

\* variant: close() without the flush
Close_no_flush(hdrSkips) ==
    /\ lastOp = "idle"
    /\ tbl = "open"
    /\ hdrSkips => ~writable
    /\ tbl' = "closed"
    /\ err' = "none"
    /\ lastOp' = "close"
    /\ UNCHANGED <<sliceArg, gotSlice>>
    /\ calls' = <<"stream.close">>
    /\ arg' = NoArg /\ memoArg' = "None" /\ fixed' = 0
    /\ recIndex' = NoIndex /\ got' = NoRec
    /\ UNCHANGED <<name, stream, writable, fromPath, createdNew, header, memo,
                   ignore_errors, appends, stored,
                   tornWrite>>

\* variant: the stream is released first, the flush comes after
Close_release_first(hdrSkips) ==
    /\ lastOp = "idle"
    /\ tbl = "open"
    /\ hdrSkips => ~writable
    /\ tbl' = "closed"
    /\ err' = "ValueError"
    /\ calls' = <<"stream.close", "header.flush">>
    /\ lastOp' = "close"
    /\ UNCHANGED <<sliceArg, gotSlice>>
    /\ arg' = NoArg /\ memoArg' = "None" /\ fixed' = 0
    /\ recIndex' = NoIndex /\ got' = NoRec
    /\ UNCHANGED <<name, stream, writable, fromPath, createdNew, header, memo,
                   ignore_errors, appends, stored,
                   tornWrite>>

\* Dbf.close
Close(hdrSkips) ==
    /\ lastOp = "idle"
    /\ tbl = "open"
    /\ hdrSkips => ~writable
    /\ LET r == flush(stream, header, writable, memo, hdrSkips)
       IN  /\ stream' = r.stream
           /\ err' = r.err
           /\ tbl' = IF r.err = "none" THEN "closed" ELSE "open"
           /\ calls' = IF r.err = "none" THEN r.calls \o <<"stream.close">>
                        ELSE r.calls
    /\ lastOp' = "close"
    /\ UNCHANGED <<sliceArg, gotSlice>>
    /\ arg' = NoArg /\ memoArg' = "None" /\ fixed' = 0
    /\ recIndex' = NoIndex /\ got' = NoRec
    /\ UNCHANGED <<name, writable, fromPath, createdNew, header, memo,
                   ignore_errors, appends, stored,
                   tornWrite>>

\* Dbf.flush
Flush(hdrSkips) ==
    /\ lastOp = "idle"
    /\ tbl = "open"
    /\ hdrSkips => ~writable
    /\ LET r == flush(stream, header, writable, memo, hdrSkips)
       IN  /\ stream' = r.stream
           /\ err' = r.err
           /\ calls' = r.calls
    /\ lastOp' = "flush"
    /\ UNCHANGED <<sliceArg, gotSlice>>
    /\ arg' = NoArg /\ memoArg' = "None" /\ fixed' = 0
    /\ recIndex' = NoIndex /\ got' = NoRec
    /\ UNCHANGED <<tbl, name, writable, fromPath, createdNew, header, memo,
                   ignore_errors, appends, stored,
                   tornWrite>>

\* dbf.ignore_errors = value
SetIgnoreErrors(value) ==
    /\ lastOp = "idle"
    /\ tbl \in {"open", "closed"}
    /\ header' = [header EXCEPT !.ignore_errors = ignore_errors_setter(value).header]
    /\ ignore_errors' = ignore_errors_setter(value).self
    /\ lastOp' = "set_ignore_errors"
    /\ UNCHANGED <<sliceArg, gotSlice>>
    /\ err' = "none"
    /\ arg' = NoArg /\ memoArg' = "None" /\ fixed' = 0
    /\ recIndex' = NoIndex /\ got' = NoRec /\ calls' = <<>>
    /\ UNCHANGED <<tbl, name, stream, writable, fromPath, createdNew, memo,
                   appends, stored,
                   tornWrite>>

\* dbf.write_record(record), the record fresh (no index) or one that was
\* appended, stored or read before
WriteRecord(index, vals) ==
    /\ lastOp = "idle"
    /\ tbl = "open"
    /\ LET record == [index |-> index, vals |-> vals]
           r == write_record(stream, header, writable, record)
       IN  /\ stream' = r.stream
           /\ err' = r.err
           /\ recIndex' = record.index
           /\ stored' = Store(stored, record, writable /\ r.err = "none")
    /\ lastOp' = "write_record"
    /\ UNCHANGED <<sliceArg, gotSlice>>
    /\ arg' = NoArg /\ memoArg' = "None" /\ fixed' = 0 /\ got' = NoRec
    /\ calls' = <<>>
    /\ UNCHANGED <<tbl, name, writable, fromPath, createdNew, header, memo,
                   ignore_errors, appends,
                   tornWrite>>

\* variant: append counts the record before it writes it
AppendRecord_count_first(vals) ==
    /\ lastOp = "idle"
    /\ tbl = "open"
    /\ header.record_count < MaxRecs
    /\ LET record == [index |-> <<header.record_count>>, vals |-> vals]
           h1 == [header EXCEPT !.record_count = @ + 1]
           r == write_record(stream, h1, writable, record)
       IN  /\ stream' = r.stream
           /\ err' = r.err
           /\ recIndex' = record.index
           /\ header' = h1
           /\ appends' = IF r.err = "none" THEN appends + 1 ELSE appends
           /\ stored' = Store(stored, record, writable /\ r.err = "none")
           /\ tornWrite' = IF writable /\ r.err = "none" /\ tornWrite = "lost"
                            THEN "restored" ELSE tornWrite
    /\ lastOp' = "append"
    /\ UNCHANGED <<sliceArg, gotSlice>>
    /\ arg' = NoArg /\ memoArg' = "None" /\ fixed' = 0 /\ got' = NoRec
    /\ calls' = <<>>
    /\ UNCHANGED <<tbl, name, writable, fromPath, createdNew, memo,
                   ignore_errors>>

\* Dbf.append
AppendRecord(vals) ==
    /\ lastOp = "idle"
    /\ tbl = "open"
    /\ header.record_count < MaxRecs
    /\ LET record == [index |-> <<header.record_count>>, vals |-> vals]
           r == write_record(stream, header, writable, record)
       IN  /\ stream' = r.stream
           /\ err' = r.err
           /\ recIndex' = record.index
           /\ header' = IF r.err = "none"
                        THEN [header EXCEPT !.record_count = @ + 1]
                        ELSE header
           /\ appends' = IF r.err = "none" THEN appends + 1 ELSE appends
           /\ stored' = Store(stored, record, writable /\ r.err = "none")
           /\ tornWrite' = IF writable /\ r.err = "none" /\ tornWrite = "lost"
                            THEN "restored" ELSE tornWrite
    /\ lastOp' = "append"
    /\ UNCHANGED <<sliceArg, gotSlice>>
    /\ arg' = NoArg /\ memoArg' = "None" /\ fixed' = 0 /\ got' = NoRec
    /\ calls' = <<>>
    /\ UNCHANGED <<tbl, name, writable, fromPath, createdNew, memo,
                   ignore_errors>>

\* variant: the count is advanced although the write raised
AppendRecordFault_counts(vals, fault) ==
    /\ lastOp = "idle"
    /\ tbl = "open"
    /\ writable
    /\ header.record_count < MaxRecs
    /\ LET record == [index |-> <<header.record_count>>, vals |-> vals]
           r == write_record_fault(stream, header, writable, record, fault)
       IN  /\ stream' = r.stream
           /\ err' = r.err
           /\ recIndex' = record.index
           /\ header' = [header EXCEPT !.record_count = @ + 1]
           /\ appends' = appends + 1
           /\ stored' = Store(stored, record, r.stream # stream)
           /\ tornWrite' = IF fault = "terminator" THEN "lost" ELSE tornWrite
    /\ lastOp' = "append"
    /\ UNCHANGED <<sliceArg, gotSlice>>
    /\ arg' = NoArg /\ memoArg' = "None" /\ fixed' = 0 /\ got' = NoRec
    /\ calls' = <<>>
    /\ UNCHANGED <<tbl, name, writable, fromPath, createdNew, memo,
                   ignore_errors>>

\* Dbf.append on a writable stream one of whose calls raises: the exception
\* leaves write_record and append before the count is advanced
AppendRecordFault(vals, fault) ==
    /\ lastOp = "idle"
    /\ tbl = "open"
    /\ writable
    /\ header.record_count < MaxRecs
    /\ LET record == [index |-> <<header.record_count>>, vals |-> vals]
           r == write_record_fault(stream, header, writable, record, fault)
       IN  /\ stream' = r.stream
           /\ err' = r.err
           /\ recIndex' = record.index
           /\ header' = IF r.err = "none"
                        THEN [header EXCEPT !.record_count = @ + 1]
                        ELSE header
           /\ appends' = IF r.err = "none" THEN appends + 1 ELSE appends
           /\ stored' = Store(stored, record, r.stream # stream)
           /\ tornWrite' = IF fault = "terminator" THEN "lost" ELSE tornWrite
    /\ lastOp' = "append"
    /\ UNCHANGED <<sliceArg, gotSlice>>
    /\ arg' = NoArg /\ memoArg' = "None" /\ fixed' = 0 /\ got' = NoRec
    /\ calls' = <<>>
    /\ UNCHANGED <<tbl, name, writable, fromPath, createdNew, memo,
                   ignore_errors>>

\* Dbf.add_field(*defs)
AddField(defs) ==
    /\ lastOp = "idle"
    /\ tbl = "open"
    /\ header.record_count > 0 \/ Len(header.fields) + Len(defs) <= MaxFields
    /\ LET r == add_field(header, memo, name, defs)
       IN  /\ header' = r.header
           /\ memo' = r.memo
           /\ err' = r.err
    /\ lastOp' = "add_field"
    /\ UNCHANGED <<sliceArg, gotSlice>>
    /\ arg' = NoArg /\ memoArg' = "None" /\ fixed' = 0
    /\ recIndex' = NoIndex /\ got' = NoRec /\ calls' = <<>>
    /\ UNCHANGED <<tbl, name, stream, writable, fromPath, createdNew,
                   ignore_errors, appends, stored,
                   tornWrite>>

\* Dbf.__getitem__ with a single index
GetItem(index) ==
    /\ lastOp = "idle"
    /\ tbl = "open"
    /\ LET f == _fix_index(index, header)
           r == from_stream(stream, header, f.val)
       IN  /\ fixed' = f.val
           /\ err' = IF f.err # "none" THEN f.err ELSE r.err
           /\ got' = IF f.err # "none" THEN NoRec ELSE r.rec
    /\ lastOp' = "getitem"
    /\ UNCHANGED <<sliceArg, gotSlice>>
    /\ arg' = index /\ memoArg' = "None"
    /\ recIndex' = NoIndex /\ calls' = <<>>
    /\ UNCHANGED tableVars
    /\ UNCHANGED tornWrite

\* Dbf.__getitem__ with a slice: self[_recno] for every row number the
\* slice yields, in order; the first read that raises ends the call
GetSlice(sl) ==
    /\ lastOp = "idle"
    /\ tbl = "open"
    /\ LET si == slice_indices(header.record_count, sl)
           one(k) ==
               LET f == _fix_index([isInt |-> TRUE, v |-> si.idx[k]], header)
               IN  IF f.err # "none" THEN [err |-> f.err, rec |-> NoRec]
                   ELSE from_stream(stream, header, f.val)
           bad == {k \in 1..Len(si.idx) : one(k).err # "none"}
           first == CHOOSE k \in bad : \A j \in bad : k <= j
       IN  /\ err' = IF si.err # "none" THEN si.err
                      ELSE IF bad # {} THEN one(first).err
                      ELSE "none"
           /\ gotSlice' = IF si.err # "none" \/ bad # {} THEN <<>>
                           ELSE [k \in 1..Len(si.idx) |-> one(k).rec]
    /\ sliceArg' = sl
    /\ lastOp' = "getslice"
    /\ arg' = NoArg /\ memoArg' = "None" /\ fixed' = 0
    /\ recIndex' = NoIndex /\ got' = NoRec /\ calls' = <<>>
    /\ UNCHANGED tableVars
    /\ UNCHANGED tornWrite

\* Dbf.__setitem__
SetItem(index, vals) ==
    /\ lastOp = "idle"
    /\ tbl = "open"
    /\ LET f == _fix_index(index, header)
           record == [index |-> <<f.val>>, vals |-> vals]
           r == write_record(stream, header, writable, record)
       IN  /\ fixed' = f.val
           /\ err' = IF f.err # "none" THEN f.err ELSE r.err
           /\ recIndex' = IF f.err # "none" THEN NoIndex ELSE record.index
           /\ stream' = IF f.err # "none" THEN stream ELSE r.stream
           /\ stored' = Store(stored, record,
                              writable /\ f.err = "none" /\ r.err = "none")
    /\ lastOp' = "setitem"
    /\ UNCHANGED <<sliceArg, gotSlice>>
    /\ arg' = index /\ memoArg' = "None"
    /\ got' = NoRec /\ calls' = <<>>
    /\ UNCHANGED <<tbl, name, writable, fromPath, createdNew, header, memo,
                   ignore_errors, appends,
                   tornWrite>>

\* the call returns: the caller has its result (or exception) and is free to
\* make the next call
Return ==
    /\ lastOp # "idle"
    /\ lastOp' = "idle"
    /\ sliceArg' = NoSlice /\ gotSlice' = <<>>
    /\ err' = "none"
    /\ arg' = NoArg /\ memoArg' = "None" /\ fixed' = 0
    /\ recIndex' = NoIndex /\ got' = NoRec /\ calls' = <<>>
    /\ tornWrite' = IF tornWrite = "restored" THEN "kept" ELSE tornWrite
    /\ UNCHANGED tableVars

\* the integers around the valid range of a table of n records
IndexInputs(n) == (0 - (n + 2))..(n + 1)
\* an index argument: an int, or something that is not one
IndexArgs == {[isInt |-> TRUE, v |-> i] : i \in IndexInputs(header.record_count)}
             \cup {[isInt |-> FALSE, v |-> 0]}
RowVals == [1..Len(header.fields) -> Values]
KnownIndexes == {NoIndex} \cup {<<i>> : i \in 0..(header.record_count - 1)}
DefSeqs == UNION {[1..n -> FieldTypes] : n \in 0..MaxFields}

Next ==
    \/ \E read_only \in BOOLEAN, new \in BOOLEAN, ign \in IgnoreInputs,
          memo_file \in MemoArgs :
            OpenPath(read_only, new, ign, memo_file)
    \/ \E nm \in StreamNames, w \in BOOLEAN, new \in BOOLEAN,
          ign \in IgnoreInputs, memo_file \in MemoArgs :
            OpenStream(nm, w, new, ign, memo_file)
    \/ \E hdrSkips \in BOOLEAN : Close(hdrSkips)
    \/ \E hdrSkips \in BOOLEAN : Flush(hdrSkips)
    \/ \E value \in IgnoreInputs : SetIgnoreErrors(value)
    \/ \E index \in KnownIndexes, vals \in RowVals : WriteRecord(index, vals)
    \/ \E vals \in RowVals : AppendRecord(vals)
    \/ \E defs \in DefSeqs : AddField(defs)
    \/ \E index \in IndexArgs : GetItem(index)
    \/ \E index \in IndexArgs, vals \in RowVals : SetItem(index, vals)
    \/ Return

Spec == Init /\ [][Next]_vars

\* a table opened from its path (no memo_file, strict conversion) and the
\* operations that reach its stream, on a stream whose seek and write calls
\* may raise
NextFault ==
    \/ \E read_only \in BOOLEAN, new \in BOOLEAN :
            OpenPath(read_only, new, 0, "None")
    \/ \E hdrSkips \in BOOLEAN : Close(hdrSkips)
    \/ \E hdrSkips \in BOOLEAN : Flush(hdrSkips)
    \/ \E index \in KnownIndexes, vals \in RowVals : WriteRecord(index, vals)
    \/ \E vals \in RowVals : AppendRecord(vals)
    \/ \E vals \in RowVals, fault \in FaultPoints :
            AppendRecordFault(vals, fault)
    \/ \E defs \in DefSeqs : AddField(defs)
    \/ \E index \in IndexArgs, vals \in RowVals : SetItem(index, vals)
    \/ Return

SpecFault == Init /\ [][NextFault]_vars

\* slice limits around the valid range of a table of n records, and steps
SliceLimits(n) == {<<>>} \cup {<<i>> : i \in (0 - (n + 1))..(n + 1)}
SliceSteps == {<<>>, <<0 - 2>>, <<0 - 1>>, <<0>>, <<2>>}
SliceArgs ==
    [start : SliceLimits(header.record_count),
     stop : SliceLimits(header.record_count),
     step : SliceSteps]

\* a table opened from its path (no memo_file, strict conversion), built,
\* appended to and closed, and the sliced reads of it
NextSlice ==
    \/ \E read_only \in BOOLEAN, new \in BOOLEAN :
            OpenPath(read_only, new, 0, "None")
    \/ \E hdrSkips \in BOOLEAN : Close(hdrSkips)
    \/ \E vals \in RowVals : AppendRecord(vals)
    \/ \E defs \in DefSeqs : AddField(defs)
    \/ \E sl \in SliceArgs : GetSlice(sl)
    \/ Return

SpecSlice == Init /\ [][NextSlice]_vars

\* ---------------------------------------------------------------- properties
n_records == header.record_count

\* the cells holding the terminator byte
EofPositions(s) == {p \in 1..Len(s) : s[p].k = "eof"}

\* the fixed-length rows physically present after the header
RowsPresent(s, h) ==
    Cardinality({j \in 0..MaxRecs :
        /\ position(h, j) + recordLength(h) <= Len(s)
        /\ s[position(h, j) + 1].k = "flag"})

IndexedOp == lastOp \in {"getitem", "setitem"}

\* C1: on a table with n >= 1 records _fix_index maps every i with
\* -n <= i < 0 to n+i (-1 to n-1), and index n and index -n-1 fail with the
\* out-of-range error (IndexError).
C1_NegativeIndexResolves ==
    (IndexedOp /\ arg.isInt /\ n_records >= 1) =>
        /\ (0 - n_records <= arg.v /\ arg.v < 0) =>
                (err # "IndexError" /\ fixed = n_records + arg.v)
        /\ (arg.v = n_records \/ arg.v = 0 - n_records - 1) =>
                err = "IndexError"

\* C2: an indexed read or write given an integer either fails with the
\* out-of-range error or addresses a row r with 0 <= r < record_count.
C2_NormalizedIndexInRange ==
    (IndexedOp /\ arg.isInt) =>
        \/ err = "IndexError"
        \/ (0 <= fixed /\ fixed < n_records)

\* C3: on a writable table created new, after n >= 1 appends (and any
\* in-place overwrites) record_count = n and the stream holds exactly one
\* terminator byte, in the cell right after record n-1.
C3_OneTerminatorAfterLastRow ==
    (tbl # "none" /\ createdNew /\ writable /\ appends >= 1) =>
        /\ n_records = appends
        /\ EofPositions(stream) = {position(header, appends) + 1}

C3_Witness ==
    /\ tbl = "open" /\ createdNew /\ writable
    /\ appends >= 2
    /\ lastOp = "setitem" /\ err = "none" /\ fixed = 0

\* C4: in every state of a table, writable or read-only, record_count is the
\* number of fixed-length rows physically present in the stream.
C4_CountMatchesRows ==
    tbl # "none" => n_records = RowsPresent(stream, header)

\* C5: add_field succeeds when record_count = 0; when record_count > 0 it
\* fails with the structural error (the TypeError of add_field) and leaves
\* the schema, the bound memo and record_count as they were.
C5_AddFieldGuard ==
    [][lastOp' = "add_field" =>
        IF n_records = 0
        THEN /\ err' = "none"
             /\ header'.record_count = 0
             /\ Len(header'.fields) >= Len(header.fields)
             /\ SubSeq(header'.fields, 1, Len(header.fields)) = header.fields
        ELSE /\ err' = "TypeError"
             /\ header' = header
             /\ memo' = memo]_vars

C5_Witness ==
    /\ lastOp = "add_field" /\ err = "TypeError"
    /\ n_records > 0 /\ Len(header.fields) >= 1

\* C6: when the stream is not writable, write_record, append and
\* table[i] = record leave the stream contents unchanged, and write_record,
\* append and table[i] = record with 0 <= i < record_count raise nothing.
C6_ReadOnlyWritesAreNoOps ==
    [][(~writable /\ lastOp' \in {"write_record", "append", "setitem"}) =>
        /\ stream' = stream
        /\ lastOp' \in {"write_record", "append"} => err' = "none"
        /\ (lastOp' = "setitem" /\ arg'.isInt
                /\ 0 <= arg'.v /\ arg'.v < n_records) => err' = "none"]_vars

C6_Witness ==
    /\ tbl = "open" /\ ~writable
    /\ lastOp = "setitem" /\ err = "none"
    /\ arg.isInt /\ 0 <= arg.v /\ arg.v < n_records
    /\ Len(header.fields) >= 1

\* what table[i] returns
getitem(i) ==
    LET f == _fix_index(i, header)
    IN  IF f.err # "none" THEN [err |-> f.err, rec |-> NoRec]
        ELSE from_stream(stream, header, f.val)

\* C7: on a writable table, after table[i] = record with 0 <= i <
\* record_count, table[i] returns a record with index i and the field values
\* written.
C7_SetItemGetItemRoundTrip ==
    (tbl = "open" /\ writable /\ lastOp = "setitem" /\ arg.isInt
        /\ 0 <= arg.v /\ arg.v < n_records) =>
        /\ err = "none"
        /\ getitem(arg).err = "none"
        /\ getitem(arg).rec.index = <<arg.v>>
        /\ arg.v \in DOMAIN stored
        /\ getitem(arg).rec.vals = stored[arg.v]

C7_Witness ==
    /\ tbl = "open" /\ writable /\ lastOp = "setitem" /\ err = "none"
    /\ arg.isInt /\ arg.v = 0 /\ n_records >= 2
    /\ Len(header.fields) >= 1
    /\ getitem(arg).rec.vals # getitem([isInt |-> TRUE, v |-> 1]).rec.vals

\* C8: a table created new, given fields and k appended records, then closed
\* and reopened (new=False), has record_count = k and row j decodes to the
\* values of the j-th appended record.
C8_ReopenRoundTrip ==
    [][(tbl = "closed" /\ createdNew /\ writable
            /\ lastOp' = "open" /\ ~createdNew') =>
        /\ header'.record_count = appends
        /\ header'.fields = header.fields
        /\ DOMAIN stored = 0..(appends - 1)
        /\ \A j \in 0..(appends - 1) :
              /\ from_stream(stream', header', j).err = "none"
              /\ from_stream(stream', header', j).rec.vals = stored[j]]_vars

C8_Witness ==
    /\ tbl = "open" /\ lastOp = "open" /\ ~createdNew
    /\ n_records = 2 /\ Len(header.fields) >= 1
    /\ from_stream(stream, header, 0).err = "none"
    /\ from_stream(stream, header, 1).err = "none"
    /\ from_stream(stream, header, 0).rec.vals
         # from_stream(stream, header, 1).rec.vals

\* C9: __init__ binds the memo by strict priority: an explicit memo path
\* wins whatever the header says; else a header with memo fields gives the
\* store at the name derived from the table's name; else no memo.
C9_MemoBindingPriority ==
    lastOp = "open" =>
        IF memoArg \notin {"None", ""}
        THEN memo.bound /\ memo.path = memoArg
        ELSE IF has_memo(header)
             THEN memo.bound /\ memo.path = memoFileName(name)
        ELSE ~memo.bound

C9_Witness ==
    /\ lastOp = "open" /\ memoArg = "x.fpt" /\ has_memo(header)
    /\ memo.bound /\ memo.path = "x.fpt"

\* C10: the header's lenient-conversion flag equals the table's
\* ignore_errors flag after construction and after every assignment.
C10_IgnoreErrorsMirrored ==
    tbl # "none" => header.ignore_errors = ignore_errors

C10_Witness ==
    /\ lastOp = "set_ignore_errors"
    /\ ignore_errors /\ header.ignore_errors

\* C11: close() closes only a stream the table opened itself from a path;
\* on a table built on a stream the caller supplied, close() flushes and
\* leaves that stream open.
C11_BorrowedStreamStaysOpen ==
    (lastOp = "close" /\ err = "none" /\ ~fromPath) => tbl = "open"

\* C12: whenever the header's schema has memo fields a memo store is bound
\* and the header's memo reference is that store; add_field creates a store
\* only when the new schema has memo fields and none is bound, and never
\* replaces a bound one.
C12_MemoBoundWhenSchemaHasMemo ==
    [][/\ (tbl' # "none" /\ has_memo(header')) =>
              (memo'.bound /\ header'.memo = memo')
       /\ (lastOp' = "add_field" /\ memo.bound) => memo' = memo
       /\ (lastOp' = "add_field" /\ ~memo.bound) =>
              IF err' = "none" /\ has_memo(header')
              THEN memo' = MemoFile(memoFileName(name), FALSE, TRUE)
              ELSE memo' = memo]_vars

C12_Witness ==
    /\ lastOp = "add_field" /\ err = "none" /\ has_memo(header)
    /\ memo.bound /\ memo.path = memoFileName(name)
    /\ header.memo = memo

\* C13: once close() was called on a table that opened its own stream (and
\* its own memo store), the stream and the memo store are released when
\* close() exits, also when the flush inside close() failed.
C13_CloseReleasesOnEveryPath ==
    (lastOp = "close" /\ fromPath) =>
        /\ tbl = "closed"
        /\ memo.bound => memo.closed

\* C14: a close() that returns has made, in this order, the header
\* serialisation into the stream, the stream flush and the memo flush (the
\* last only when a memo is bound), and released the stream after them;
\* flush() makes the same calls without the release.  With no memo bound,
\* flush() and close() raise nothing once the header was serialised: the
\* absent memo is skipped.
C14_FlushBeforeRelease ==
    LET flushed == <<"header.flush", "stream.flush">> \o
                   (IF memo.bound THEN <<"memo.flush">> ELSE <<>>)
    IN  /\ (lastOp = "close" /\ err = "none") =>
                calls = flushed \o <<"stream.close">>
        /\ (lastOp = "flush" /\ err = "none") => calls = flushed
        /\ (lastOp = "close" /\ tbl = "closed") => err = "none"
        /\ (lastOp \in {"flush", "close"} /\ ~memo.bound
                /\ Len(calls) >= 2) => err = "none"

C14_Witness ==
    /\ lastOp = "close" /\ err = "none" /\ tbl = "closed" /\ memo.bound
    /\ calls = <<"header.flush", "stream.flush", "memo.flush", "stream.close">>
    /\ n_records >= 1

\* the cells of row j
RowCells(s, h, j) == Read(s, position(h, j), recordLength(h))

\* C15: an append that returns on a writable table with record_count = c
\* sets record.index to c, writes the record's bytes at row c while the
\* count is still c (so the terminator follows row c), and then makes the
\* count c+1; rows 0..c-1 are unchanged, and the appends to a new table get
\* the indices 0, 1, 2, ...
C15_AppendWritesThenCounts ==
    [][(writable /\ lastOp' = "append" /\ err' = "none") =>
        LET c == header.record_count
        IN  /\ recIndex' = <<c>>
            /\ header'.record_count = c + 1
            /\ header'.fields = header.fields
            /\ c \in DOMAIN stored'
            /\ RowCells(stream', header, c)
                 = to_bytes([index |-> <<c>>, vals |-> stored'[c]])
            /\ position(header, c + 1) + 1 \in EofPositions(stream')
            /\ \A j \in 0..(c - 1) :
                  RowCells(stream', header, j) = RowCells(stream, header, j)
            /\ appends' = appends + 1
            /\ createdNew => recIndex' = <<appends>>]_vars

C15_Witness ==
    /\ tbl = "open" /\ writable /\ createdNew
    /\ lastOp = "append" /\ err = "none"
    /\ recIndex = <<1>> /\ n_records = 2 /\ Len(header.fields) >= 1
    /\ stored[0] # stored[1]

\* C16: table[i] = record with 0 <= i < record_count on a writable table
\* changes only the cells of row i: record_count, the schema, every other
\* cell of the stream (so every other row) and the terminator cells stay as
\* they were.
C16_SetItemFrame ==
    [][(writable /\ lastOp' = "setitem" /\ arg'.isInt
            /\ 0 <= arg'.v /\ arg'.v < n_records) =>
        LET lo == position(header, arg'.v)
            hi == lo + recordLength(header)
        IN  /\ err' = "none"
            /\ header' = header
            /\ Len(stream') = Len(stream)
            /\ \A p \in 1..Len(stream) :
                  (p <= lo \/ p > hi) => stream'[p] = stream[p]
            /\ EofPositions(stream') = EofPositions(stream)
            /\ RowCells(stream', header, arg'.v)
                 = to_bytes([index |-> <<arg'.v>>, vals |-> stored'[arg'.v]])]_vars

C16_Witness ==
    /\ tbl = "open" /\ writable /\ lastOp = "setitem" /\ err = "none"
    /\ arg.isInt /\ arg.v = 1 /\ n_records = 2 /\ Len(header.fields) >= 1
    /\ EofPositions(stream) = {position(header, 2) + 1}
    /\ stored[0] # stored[1]

\* C17: when the write inside append raises, append raises too and
\* record_count keeps the value it had before the call.
C17_FailedAppendKeepsCount ==
    [][(lastOp' = "append" /\ err' # "none") =>
        /\ err' = "IOError"
        /\ header' = header
        /\ appends' = appends]_vars

C17_Witness ==
    /\ tbl = "open" /\ writable /\ lastOp = "append" /\ err = "IOError"
    /\ tornWrite = "lost"
    /\ n_records = 1 /\ RowsPresent(stream, header) = 2
    /\ EofPositions(stream) = {}

\* C18: a write that raised after the row was written and before the
\* terminator was leaves the terminator missing; the first append that
\* then succeeds on the writable table puts the terminator back, once and
\* right after the last row present, and record_count is again the number
\* of rows present.
C18_NextAppendRestoresTerminator ==
    [][(writable /\ tornWrite = "lost" /\ lastOp' = "append"
            /\ err' = "none") =>
        /\ tornWrite' = "restored"
        /\ EofPositions(stream')
             = {position(header', header'.record_count) + 1}
        /\ header'.record_count = RowsPresent(stream', header')]_vars

C18_Witness ==
    /\ tbl = "open" /\ writable /\ lastOp = "append" /\ err = "none"
    /\ tornWrite = "restored"
    /\ n_records = 2 /\ Len(header.fields) >= 1
    /\ EofPositions(stream) = {position(header, 2) + 1}

\* C19: on a writable table write_record given a record that has no index
\* (a new_record() never appended or stored) fails, before any seek or
\* write: the stream contents and record_count are as before the call.
C19_WriteWithoutIndexFails ==
    [][(writable /\ lastOp' = "write_record" /\ recIndex' = NoIndex) =>
        /\ err' = "ValueError"
        /\ stream' = stream
        /\ header' = header]_vars

C19_Witness ==
    /\ tbl = "open" /\ writable /\ lastOp = "write_record"
    /\ recIndex = NoIndex /\ err = "ValueError"
    /\ n_records >= 1 /\ Len(header.fields) >= 1

\* the row numbers a[start:stop:step] selects from 0..n-1, in the slice's
\* order: a limit below zero counts from the end, an omitted limit is the
\* end of the rows
Selected(n, sl) ==
    LET step == IF sl.step = <<>> THEN 1 ELSE sl.step[1]
        norm(x) == IF x < 0 THEN x + n ELSE x
        from == IF sl.start = <<>> THEN (IF step > 0 THEN 0 ELSE n - 1)
                ELSE norm(sl.start[1])
        to == IF sl.stop = <<>> THEN (IF step > 0 THEN n ELSE 0 - 1)
              ELSE norm(sl.stop[1])
        first == IF step > 0 THEN Max(from, 0) ELSE Min(from, n - 1)
        S == IF step > 0
             THEN {i \in 0..(n - 1) :
                      i >= from /\ i < to /\ (i - first) % step = 0}
             ELSE {i \in 0..(n - 1) :
                      i <= from /\ i > to /\ (first - i) % (0 - step) = 0}
    IN  [k \in 1..Cardinality(S) |->
            CHOOSE x \in S :
                Cardinality({y \in S : IF step > 0 THEN y < x ELSE y > x})
                    = k - 1]

\* C20: table[a:b:s] (s not 0) returns the records at the row numbers the
\* slice selects from 0..record_count-1, in the slice's order, each the
\* record the single-index read of that row returns (and raises what such
\* a read raises); it never raises IndexError, limits out of bounds are
\* clamped, and an empty table gives an empty list.
C20_SliceReadsSelectedRows ==
    (lastOp = "getslice" /\ sliceArg.step # <<0>>) =>
        LET sel == Selected(n_records, sliceArg)
            single(k) == getitem([isInt |-> TRUE, v |-> sel[k]])
            ok == \A k \in 1..Len(sel) : single(k).err = "none"
        IN  /\ err # "IndexError"
            /\ \A k \in 1..Len(sel) : sel[k] \in 0..(n_records - 1)
            /\ ok => /\ err = "none"
                     /\ Len(gotSlice) = Len(sel)
                     /\ \A k \in 1..Len(sel) : gotSlice[k] = single(k).rec
            /\ ~ok => /\ gotSlice = <<>>
                      /\ \E k \in 1..Len(sel) : err = single(k).err
            /\ n_records = 0 => (err = "none" /\ gotSlice = <<>>)

C20_Witness ==
    /\ lastOp = "getslice" /\ err = "none" /\ n_records = 2
    /\ sliceArg = [start |-> <<3>>, stop |-> <<0 - 3>>, step |-> <<0 - 1>>]
    /\ Len(gotSlice) = 2
    /\ gotSlice[1].index = <<1>> /\ gotSlice[2].index = <<0>>
    /\ Len(header.fields) >= 1
    /\ gotSlice[1].vals # gotSlice[2].vals
====
